---- MODULE Spec2Model ----
(***************************************************************************)
(* Model of cktap/proto.py: the CKTapCard session object, its transport    *)
(* exchange (send), the first status exchange (first_look), authenticated  *)
(* sends (send_auth), close, the verification layer (certificate_check,    *)
(* address) and the slot and key operations built on them.                 *)
(*                                                                         *)
(* Python dictionaries are functions on a set of string keys, byte strings *)
(* are sequences of 0..255, the object's attributes are the function       *)
(* `self` (a missing attribute is a missing key), and the card behind the  *)
(* transport is free to answer anything from a bounded set of responses.   *)
(***************************************************************************)
EXTENDS Integers, Sequences, FiniteSets, TLC

VARIABLES self, phase, op, sent, rcvd, out, auth, checks, certified

vars == <<self, phase, op, sent, rcvd, out, auth, checks, certified>>

(***************************************************************************)
(* Bounds of the model                                                     *)
(***************************************************************************)
MaxNonce == 2      \* distinct non-empty card nonces the card may hand out
MaxKey == 2        \* distinct card public keys a status may report

(***************************************************************************)
(* Dictionaries                                                            *)
(***************************************************************************)
EmptyMap == [k \in {} |-> 0]
Has(m, k) == k \in DOMAIN m
Put(m, k, v) == (k :> v) @@ m
Pop(m, k) == [x \in (DOMAIN m) \ {k} |-> m[x]]
Update(m, n) == n @@ m
\* m.get(key, default)
Get(m, k, d) == IF Has(m, k) THEN m[k] ELSE d
None == <<>>
Some(v) == <<v>>

(***************************************************************************)
(* Byte strings                                                            *)
(***************************************************************************)
RECURSIVE BitXor(_, _)
BitXor(a, b) ==
    IF a = 0 THEN b
    ELSE IF b = 0 THEN a
    ELSE (((a % 2) + (b % 2)) % 2) + 2 * BitXor(a \div 2, b \div 2)

xor_bytes(a, b) == [i \in 1..Len(a) |-> BitXor(a[i], b[i])]

Slice(s, n) == SubSeq(s, 1, IF n < Len(s) THEN n ELSE Len(s))

RECURSIVE SumBytes(_)
SumBytes(s) == IF s = <<>> THEN 0 ELSE Head(s) + SumBytes(Tail(s))

HexDigit(d) == <<"0", "1", "2", "3", "4", "5", "6", "7",
                 "8", "9", "a", "b", "c", "d", "e", "f">>[d + 1]

\* "%04x" % n, for n below 16^4
Hex4(n) == << HexDigit((n \div 4096) % 16), HexDigit((n \div 256) % 16),
              HexDigit((n \div 16) % 16), HexDigit(n % 16) >>

(***************************************************************************)
(* Constants of the protocol                                               *)
(***************************************************************************)
SW_OKAY == 36864          \* 0x9000
DefaultCode == 500
KeyLen == 32              \* length of a session key and of a digest

(***************************************************************************)
(* Exceptions                                                              *)
(***************************************************************************)
NoExc == [type |-> "none"]
AssertionError == [type |-> "AssertionError"]
AttributeError == [type |-> "AttributeError"]
KeyError == [type |-> "KeyError"]
TypeError == [type |-> "TypeError"]
CardRuntimeError(cmd, code, msg) ==
    [type |-> "CardRuntimeError", text |-> <<code, "on", cmd, msg>>,
     code |-> code, msg |-> msg]

\* what a call leaves behind: the object, the commands handed to the
\* transport, the answers it gave, a raised exception or a returned value
\* (value is None when the call raised), the calls it made to the
\* session authenticator, and the verifications it ran
Outcome(s, snt, rcv, exc, val) ==
    [self |-> s, sent |-> snt, rcvd |-> rcv, exc |-> exc, value |-> val,
     auth |-> <<>>, checks |-> <<>>]
Raised(o) == o.exc.type # "none"

(***************************************************************************)
(* CKTapCard.send                                                          *)
(***************************************************************************)
SwErrorMsg(stat_word) == <<"Got error SW value: 0x">> \o Hex4(stat_word)

\* variant: the status word is recorded only next to the card's own error
Promote_only_named(stat_word, resp) ==
    IF stat_word # SW_OKAY /\ Has(resp, "error")
    THEN Put(resp, "stat_word", stat_word)
    ELSE resp

\* lines 44-48: any bad status word is an error
Promote(stat_word, resp) ==
    IF stat_word # SW_OKAY
    THEN Put(IF Has(resp, "error") THEN resp
             ELSE Put(resp, "error", SwErrorMsg(stat_word)),
             "stat_word", stat_word)
    ELSE resp

\* variant: the nonce is mirrored from successful responses only
TrackNonce_unless_error(s, resp) ==
    IF Has(resp, "card_nonce") /\ ~Has(resp, "error")
    THEN Put(s, "card_nonce", resp.card_nonce)
    ELSE s

\* variant: a response without a nonce clears the tracked one
TrackNonce_forgets(s, resp) ==
    Put(s, "card_nonce", Get(resp, "card_nonce", <<>>))

\* variant: the nonce is mirrored only until the session has one
TrackNonce_once(s, resp) ==
    IF Has(resp, "card_nonce") /\ ~Has(s, "card_nonce")
    THEN Put(s, "card_nonce", resp.card_nonce)
    ELSE s

\* lines 51-55: mirror the card's nonce
TrackNonce(s, resp) ==
    IF Has(resp, "card_nonce") THEN Put(s, "card_nonce", resp.card_nonce)
    ELSE s

\* variant: an error without a code is handed back instead of raised
RaiseOrReturn_needs_code(cmd, raise_on_error, resp) ==
    IF raise_on_error /\ Has(resp, "error") /\ Has(resp, "code")
    THEN [exc |-> CardRuntimeError(cmd, resp.code, resp.error),
          resp |-> Pop(Pop(resp, "error"), "code"), value |-> None]
    ELSE [exc |-> NoExc, resp |-> resp, value |-> Some(resp)]

\* lines 57-62: raise the structured error, or hand the map back; the
\* record is the exception, the map as the call leaves it, and the value
RaiseOrReturn(cmd, raise_on_error, resp) ==
    IF raise_on_error /\ Has(resp, "error")
    THEN LET msg == resp.error
             r1 == Pop(resp, "error")
             code == IF Has(r1, "code") THEN r1.code ELSE DefaultCode
         IN [exc |-> CardRuntimeError(cmd, code, msg),
             resp |-> Pop(r1, "code"), value |-> None]
    ELSE [exc |-> NoExc, resp |-> resp, value |-> Some(resp)]

\* t is the answer of the transport: [sw |-> status word, resp |-> map];
\* without the transport attribute the call fails before anything is sent
send(s, cmd, raise_on_error, args, t) ==
    IF ~Has(s, "tr")
    THEN Outcome(s, <<>>, <<>>, AttributeError, None)
    ELSE LET resp == Promote(t.sw, t.resp)
             s1 == TrackNonce(s, resp)
             fin == RaiseOrReturn(cmd, raise_on_error, resp)
         IN Outcome(s1, <<[cmd |-> cmd, args |-> args]>>,
                    <<[sw |-> t.sw, raw |-> t.resp, resp |-> fin.resp]>>,
                    fin.exc, fin.value)

(***************************************************************************)
(* CKTapCard.first_look                                                    *)
(***************************************************************************)
\* the card's identity, a deterministic hash of its public key
card_pubkey_to_ident(pubkey) == [sha256 |-> pubkey]

DefaultSlots == <<0, 1>>

\* lines 72-73
LoadKey(s, st) ==
    Put(Put(s, "card_pubkey", st.pubkey),
        "card_ident", card_pubkey_to_ident(st.pubkey))

\* variant: a status without slots gives no slot at all
StatusSlots_no_default(st) == IF Has(st, "slots") THEN st.slots ELSE <<0, 0>>

\* line 80: the (active slot, slot count) pair
StatusSlots(st) == Get(st, "slots", DefaultSlots)

DetailKeys == {"applet_version", "birth_height", "is_testnet", "auth_delay",
               "is_tapsigner", "active_slot", "num_slots"}

\* variant: the network flag is read from the variant field
Detail_flags_mixed(st, k) ==
    CASE k = "applet_version" -> st.ver
      [] k = "birth_height" -> IF Has(st, "birth") THEN Some(st.birth) ELSE None
      [] k = "is_testnet" -> Get(st, "tapsigner", FALSE)
      [] k = "auth_delay" -> Get(st, "auth_delay", 0)
      [] k = "is_tapsigner" -> Get(st, "tapsigner", FALSE)
      [] k = "active_slot" -> StatusSlots(st)[1]
      [] k = "num_slots" -> StatusSlots(st)[2]

\* lines 75-80, attribute by attribute
Detail(st, k) ==
    CASE k = "applet_version" -> st.ver
      [] k = "birth_height" -> IF Has(st, "birth") THEN Some(st.birth) ELSE None
      [] k = "is_testnet" -> Get(st, "testnet", FALSE)
      [] k = "auth_delay" -> Get(st, "auth_delay", 0)
      [] k = "is_tapsigner" -> Get(st, "tapsigner", FALSE)
      [] k = "active_slot" -> StatusSlots(st)[1]
      [] k = "num_slots" -> StatusSlots(st)[2]

LoadDetails(s, st) == [k \in DetailKeys |-> Detail(st, k)] @@ s

\* variant: only the presence of the nonce is checked
NonceCheck_present(s) ==
    IF ~Has(s, "card_nonce") THEN AttributeError ELSE NoExc

\* line 81: assert self.card_nonce
NonceCheck(s) ==
    IF ~Has(s, "card_nonce") THEN AttributeError
    ELSE IF s.card_nonce = <<>> THEN AssertionError
    ELSE NoExc

first_look(s, t) ==
    LET r == send(s, "status", TRUE, EmptyMap, t)
        st == r.value[1]
        fail(s1, exc) == Outcome(s1, r.sent, r.rcvd, exc, None)
    IN IF Raised(r) THEN r
       ELSE IF Has(st, "error") THEN fail(r.self, AssertionError)
       ELSE IF ~Has(st, "proto") THEN fail(r.self, KeyError)
       ELSE IF st.proto # 1 THEN fail(r.self, AssertionError)
       ELSE IF ~Has(st, "pubkey") THEN fail(r.self, KeyError)
       ELSE LET s2 == LoadKey(r.self, st)
            IN IF ~Has(st, "ver") THEN fail(s2, KeyError)
               ELSE LET s3 == LoadDetails(s2, st)
                    IN IF NonceCheck(s3) # NoExc THEN fail(s3, NonceCheck(s3))
                       ELSE Outcome(Put(s3, "_certs_checked", FALSE),
                                    r.sent, r.rcvd, NoExc, None)

(***************************************************************************)
(* Session authenticator (cktap/utils.py, calc_xcvc)                       *)
(***************************************************************************)
CommandNames == <<"status", "certs", "check", "read", "derive", "dump",
                  "unseal", "xpub", "backup", "change", "nfc", "sign">>
CmdIndex(cmd) == CHOOSE i \in 1..Len(CommandNames) : CommandNames[i] = cmd

\* the session key: KeyLen bytes bound to command, nonce, card key and code
SessionKey(cmd, card_nonce, card_pubkey, cvc) ==
    [i \in 1..KeyLen |->
       (i * (1 + SumBytes(card_nonce) + CmdIndex(cmd))
          + 3 * SumBytes(card_pubkey) + 5 * SumBytes(cvc)) % 256]

\* our ephemeral public key for the exchange
EphemeralPubkey(card_pubkey) == <<3>> \o Tail(card_pubkey)

\* (session_key, auth_args): the code goes out only masked by the key
calc_xcvc(cmd, card_nonce, card_pubkey, cvc) ==
    LET session_key == SessionKey(cmd, card_nonce, card_pubkey, cvc)
    IN [session_key |-> session_key,
        auth_args |-> [epubkey |-> EphemeralPubkey(card_pubkey),
                       xcvc |-> xor_bytes(cvc, Slice(session_key, Len(cvc)))]]

(***************************************************************************)
(* CKTapCard.send_auth                                                     *)
(***************************************************************************)
\* cvc is None or Some(bytes); "if cvc" is false for None and for b''
Truthy(cvc) == cvc # None /\ cvc[1] # <<>>

\* variant: the card's key is passed where the nonce belongs
Authenticate_nonce_unbound(s, cmd, cvc) ==
    IF Truthy(cvc)
    THEN Some(calc_xcvc(cmd, s.card_pubkey, s.card_pubkey, cvc[1]))
    ELSE None

\* lines 90-94: the authenticator's answer, or nothing without a code
Authenticate(s, cmd, cvc) ==
    IF Truthy(cvc)
    THEN Some(calc_xcvc(cmd, s.card_nonce, s.card_pubkey, cvc[1]))
    ELSE None

\* line 92
AuthArgs(args, xc) == IF xc = None THEN args ELSE Update(args, xc[1].auth_args)

\* variant: a digest is masked whenever one is passed, whatever the command
MaskArgs_by_argument(cmd, args, session_key) ==
    IF Has(args, "digest") /\ session_key # None
    THEN [exc |-> NoExc,
          args |-> Put(args, "digest", xor_bytes(args.digest, session_key[1]))]
    ELSE IF cmd = "change" /\ Has(args, "data") /\ session_key # None
    THEN [exc |-> NoExc,
          args |-> Put(args, "data",
                       xor_bytes(args.data,
                                 Slice(session_key[1], Len(args.data))))]
    ELSE [exc |-> NoExc, args |-> args]

\* lines 98-101: the result is [exc, args]
MaskArgs(cmd, args, session_key) ==
    IF cmd = "sign"
    THEN IF ~Has(args, "digest") THEN [exc |-> KeyError, args |-> args]
         ELSE IF session_key = None THEN [exc |-> TypeError, args |-> args]
         ELSE IF Len(args.digest) # Len(session_key[1])
              THEN [exc |-> AssertionError, args |-> args]
         ELSE [exc |-> NoExc,
               args |-> Put(args, "digest", xor_bytes(args.digest, session_key[1]))]
    ELSE IF cmd = "change"
    THEN IF ~Has(args, "data") THEN [exc |-> KeyError, args |-> args]
         ELSE IF session_key = None THEN [exc |-> TypeError, args |-> args]
         ELSE IF Len(args.data) > Len(session_key[1])
              THEN [exc |-> AssertionError, args |-> args]
         ELSE [exc |-> NoExc,
               args |-> Put(args, "data",
                            xor_bytes(args.data,
                                      Slice(session_key[1], Len(args.data))))]
    ELSE [exc |-> NoExc, args |-> args]

\* the record of one authenticator call
AuthCall(s, cmd, cvc, xc) ==
    [cmd |-> cmd, card_nonce |-> s.card_nonce, card_pubkey |-> s.card_pubkey,
     cvc |-> cvc[1], session_key |-> xc[1].session_key,
     auth_args |-> xc[1].auth_args]

send_auth(s, cmd, cvc, args, t) ==
    LET xc == Authenticate(s, cmd, cvc)
        session_key == IF xc = None THEN None ELSE Some(xc[1].session_key)
        calls == IF xc = None THEN <<>> ELSE <<AuthCall(s, cmd, cvc, xc)>>
        m == MaskArgs(cmd, AuthArgs(args, xc), session_key)
        r == send(s, cmd, TRUE, m.args, t)
    IN IF m.exc.type # "none"
       THEN [Outcome(s, <<>>, <<>>, m.exc, None) EXCEPT !.auth = calls]
       ELSE [r EXCEPT !.auth = calls,
                      !.value = IF Raised(r) THEN None
                                ELSE Some([session_key |-> session_key,
                                           resp |-> r.value[1]])]

(***************************************************************************)
(* CKTapCard.close                                                         *)
(***************************************************************************)
\* variant: the transport is closed but the attribute is kept
close_keeps_transport(s) ==
    IF ~Has(s, "tr") THEN Outcome(s, <<>>, <<>>, AttributeError, None)
    ELSE Outcome(s, <<>>, <<>>, NoExc, None)

close(s) ==
    IF ~Has(s, "tr") THEN Outcome(s, <<>>, <<>>, AttributeError, None)
    ELSE Outcome(Pop(s, "tr"), <<>>, <<>>, NoExc, None)

(***************************************************************************)
(* Calls made one after the other                                          *)
(***************************************************************************)
RuntimeError(msg) == [type |-> "RuntimeError", msg |-> msg]
ValueError(msg) == [type |-> "ValueError", msg |-> msg]

\* o2 was made after o1, on the object o1 left
Then(o1, o2) ==
    [o2 EXCEPT !.sent = o1.sent \o @, !.rcvd = o1.rcvd \o @,
               !.auth = o1.auth \o @, !.checks = o1.checks \o @]
Fail(o, exc) == [o EXCEPT !.exc = exc, !.value = None]
Return(o, v) == [o EXCEPT !.exc = NoExc, !.value = Some(v)]
WithCheck(o, c) == [o EXCEPT !.checks = @ \o <<c>>]
Nothing(s) == Outcome(s, <<>>, <<>>, NoExc, None)

\* the value of an expression, worked out once: The({F(x) : x \in {e}})
\* is F(e)
The(S) == CHOOSE x \in S : TRUE

(***************************************************************************)
(* Verification helpers (cktap/utils.py)                                   *)
(***************************************************************************)
\* a signature by a key over a message, and a certificate of a key by a signer
Sig(key, msg) == [by |-> key, over |-> msg]
FactoryRoot == <<2, 200>>
TrustedLabel == "Root Factory Certificate"

\* the key a chain of certificates ends at, starting from the card's key
RECURSIVE ChainTop(_, _)
ChainTop(chain, key) ==
    IF chain = <<>> THEN Some(key)
    ELSE IF Head(chain).subject # key THEN None
    ELSE ChainTop(Tail(chain), Head(chain).by)

\* the chain leads from the card's claimed key to the trusted root, and
\* that key signed the nonce we supplied
verify_certs(st, check, certs, n) ==
    LET ok == /\ check.auth_sig = Sig(st.pubkey, <<n>>)
              /\ ChainTop(certs.cert_chain, st.pubkey) = Some(FactoryRoot)
    IN [ok |-> ok, exc |-> RuntimeError("certificate check failed"),
        value |-> TrustedLabel,
        call |-> [name |-> "verify_certs", nonce |-> n, pubkey |-> st.pubkey,
                  ok |-> ok]]

\* a bech32 address of a public key
render_address(key, testnet) ==
    [hrp |-> IF testnet THEN "tb" ELSE "bc", program |-> [hash160 |-> key]]

\* the payment key of the 'read' response, signed over our nonce
recover_address(st, rr, n) ==
    LET shaped == Has(rr, "pubkey") /\ Has(rr, "sig")
        ok == shaped /\ rr.sig = Sig(rr.pubkey, <<n>>)
        pubkey == IF shaped THEN rr.pubkey ELSE <<>>
        addr == render_address(pubkey, Get(st, "testnet", FALSE))
    IN [ok |-> ok,
        exc |-> IF shaped THEN RuntimeError("bad signature on read") ELSE KeyError,
        pubkey |-> pubkey, addr |-> addr,
        call |-> [name |-> "recover_address", nonce |-> n, ok |-> ok,
                  addr |-> addr]]

\* the master key, signed over our nonce, the card's prior nonce and the
\* chain code
verify_master_pubkey(master_pubkey, sig, chain_code, my_nonce, card_nonce) ==
    LET ok == sig = Sig(master_pubkey, <<my_nonce, card_nonce, chain_code>>)
    IN [ok |-> ok, exc |-> RuntimeError("bad signature on derive"),
        value |-> master_pubkey,
        call |-> [name |-> "verify_master_pubkey", my_nonce |-> my_nonce,
                  card_nonce |-> card_nonce, ok |-> ok]]

\* the key derived from the master key and the chain code
DeriveKey(master_pub, chain_code) ==
    <<2, (master_pub[2] + SumBytes(chain_code)) % 256>>

verify_derive_address(chain_code, master_pub, testnet) ==
    LET addr == render_address(DeriveKey(master_pub, chain_code), testnet)
    IN [addr |-> addr,
        call |-> [name |-> "verify_derive_address", ok |-> TRUE, addr |-> addr]]

(***************************************************************************)
(* CKTapCard.certificate_check                                             *)
(***************************************************************************)
\* variant: the flag is set before the chain is verified
CertFlag_early(s, ok) == Put(s, "_certs_checked", TRUE)

\* line 222, reached only when verify_certs has returned
CertFlag(s, ok) == IF ok THEN Put(s, "_certs_checked", TRUE) ELSE s

\* lines 221-224: r1, r2 and r3 are the outcomes of status, certs and check
CertVerdict(r1, r2, r3, n) ==
    The({LET r4 == [WithCheck(r3, v.call) EXCEPT
                       !.self = CertFlag(r3.self, v.ok)]
         IN IF ~v.ok THEN Fail(r4, v.exc) ELSE Return(r4, v.value) :
         v \in {verify_certs(r1.value[1], r3.value[1], r2.value[1], n)}})

\* lines 218-219
CheckThenVerify(r1, r2, t, n) ==
    The({IF Raised(r3) THEN r3 ELSE CertVerdict(r1, r2, r3, n) :
         r3 \in {Then(r2, send(r2.self, "check", TRUE, [nonce |-> n], t))}})

\* line 216
CertsThenCheck(r1, ts, n) ==
    The({IF Raised(r2) THEN r2 ELSE CheckThenVerify(r1, r2, ts[3], n) :
         r2 \in {Then(r1, send(r1.self, "certs", TRUE, EmptyMap, ts[2]))}})

\* ts are the answers to status, certs and check; n is the nonce picked
certificate_check(s, ts, n) ==
    The({IF Raised(r1) THEN r1 ELSE CertsThenCheck(r1, ts, n) :
         r1 \in {send(s, "status", TRUE, EmptyMap, ts[1])}})

(***************************************************************************)
(* CKTapCard.address                                                       *)
(***************************************************************************)
\* line 116
NeedsCertCheck(s, faster) == ~s._certs_checked /\ ~faster

\* variant: the derived address is computed but not compared
AddressMismatch_ignored(derived_addr, addr) == FALSE

\* line 152
AddressMismatch(derived_addr, addr) == derived_addr # addr

\* variant: the nonce is read after the derive command has been answered
PriorNonce_late(before, after) == after.card_nonce

\* line 146: the card nonce as tracked before 'derive' is sent
PriorNonce(before, after) == before.card_nonce

\* lines 150-153: r3 is the outcome of derive, vm the verified master key
DerivedMatches(s, r3, vm, addr) ==
    The({LET r5 == WithCheck(WithCheck(r3, vm.call), vd.call)
         IN IF AddressMismatch(vd.addr, addr)
            THEN Fail(r5, ValueError("card did not derive address as expected"))
            ELSE r5 :
         vd \in {verify_derive_address(r3.value[1].chain_code, vm.value,
                                       s.is_testnet)}})

\* lines 148-149
MasterVerified(s, rd, r3, addr, my_nonce) ==
    The({IF ~vm.ok THEN Fail(WithCheck(r3, vm.call), vm.exc)
         ELSE DerivedMatches(s, r3, vm, addr) :
         vm \in {verify_master_pubkey(r3.value[1].master_pubkey,
                                      r3.value[1].sig, r3.value[1].chain_code,
                                      my_nonce, PriorNonce(rd.self, r3.self))}})

\* lines 143-153: the second derivation; rd is the outcome so far, and the
\* result carries the exception of a failed verification
FullCheck(s, rd, addr, t, my_nonce) ==
    The({IF Raised(r3) THEN r3 ELSE MasterVerified(s, rd, r3, addr, my_nonce) :
         r3 \in {Then(rd, send(rd.self, "derive", TRUE, [nonce |-> my_nonce], t))}})

\* lines 129-135: another slot than the current one
AddressByDump(r1, incl_pubkey, target, t) ==
    The({IF Raised(r2) THEN r2
         ELSE IF incl_pubkey THEN Fail(r2, AssertionError)
         ELSE IF ~Has(r2.value[1], "addr") THEN Fail(r2, KeyError)
         ELSE Return(r2, r2.value[1].addr) :
         r2 \in {Then(r1, send(r1.self, "dump", TRUE, [slot |-> target], t))}})

\* lines 141-158: r2 is the outcome of read
AddressRecovered(s, r1, r2, faster, incl_pubkey, t, d) ==
    The({IF ~rec.ok THEN Fail(WithCheck(r2, rec.call), rec.exc)
         ELSE The({IF Raised(full) THEN full
                   ELSE IF incl_pubkey THEN Return(full, <<rec.pubkey, rec.addr>>)
                   ELSE Return(full, rec.addr) :
                   full \in {IF faster THEN WithCheck(r2, rec.call)
                             ELSE FullCheck(s, WithCheck(r2, rec.call), rec.addr,
                                            t, d.derive)}}) :
         rec \in {recover_address(r1.value[1], r2.value[1], d.read)}})

\* lines 137-139: the current slot
AddressByRead(s, r1, faster, incl_pubkey, ts, d) ==
    The({IF Raised(r2) THEN r2
         ELSE AddressRecovered(s, r1, r2, faster, incl_pubkey, ts[3], d) :
         r2 \in {Then(r1, send(r1.self, "read", TRUE, [nonce |-> d.read], ts[2]))}})

\* lines 119-127: c is the outcome of the certificate check, if any
AddressFromStatus(s, c, faster, incl_pubkey, slot, ts, d) ==
    The({IF Raised(r1) THEN r1
         ELSE IF ~Has(r1.value[1], "slots") THEN Fail(r1, KeyError)
         ELSE LET st == r1.value[1]
                  cur_slot == st.slots[1]
                  target == IF slot = None THEN cur_slot ELSE slot[1]
              IN IF ~Has(st, "addr") /\ cur_slot = target THEN Return(r1, None)
                 ELSE IF target # cur_slot
                      THEN AddressByDump(r1, incl_pubkey, target, ts[2])
                 ELSE AddressByRead(s, r1, faster, incl_pubkey, ts, d) :
         r1 \in {Then(c, send(c.self, "status", TRUE, EmptyMap, ts[1]))}})

\* slot is None or Some(number); cs are the answers to the certificate check,
\* ts the answers to status, then read or dump, then derive; d holds the
\* nonces picked for check, read and derive
address(s, faster, incl_pubkey, slot, cs, ts, d) ==
    IF s.is_tapsigner THEN Fail(Nothing(s), AssertionError)
    ELSE The({IF Raised(c) THEN c
              ELSE AddressFromStatus(s, c, faster, incl_pubkey, slot, ts, d) :
              c \in {IF NeedsCertCheck(s, faster)
                     THEN certificate_check(s, cs, d.check)
                     ELSE Nothing(s)}})

(***************************************************************************)
(* Slots: unseal_slot, get_privkey, get_slot_usage                         *)
(***************************************************************************)
\* resp.get(key, None) == v
Is(resp, key, v) == Has(resp, key) /\ resp[key] = v

\* xor_bytes(ses_key, privkey) raises when there is no session key
Unmask_plain(session_key, privkey) ==
    IF session_key = None THEN [exc |-> TypeError, pk |-> <<>>]
    ELSE [exc |-> NoExc, pk |-> privkey]

\* lines 249, 271 and 288
Unmask(session_key, privkey) ==
    IF session_key = None THEN [exc |-> TypeError, pk |-> <<>>]
    ELSE [exc |-> NoExc, pk |-> xor_bytes(session_key[1], privkey)]

\* variant: only a slot reported as unsealed is turned away
SlotGate_lenient(resp, target) ==
    IF Is(resp, "sealed", FALSE)
    THEN RuntimeError(<<"Slot", target, "has already been unsealed.">>)
    ELSE NoExc

\* lines 241-245: the slot must be used and sealed
SlotGate(resp, target) ==
    IF Is(resp, "sealed", FALSE)
    THEN RuntimeError(<<"Slot", target, "has already been unsealed.">>)
    ELSE IF ~Is(resp, "sealed", TRUE)
    THEN RuntimeError(<<"Slot", target, "has not been used yet.">>)
    ELSE NoExc

\* lines 247-251
Unsealed(r1, cvc, target, t) ==
    The({IF Raised(r2) THEN r2
         ELSE IF ~Has(r2.value[1].resp, "privkey") THEN Fail(r2, KeyError)
         ELSE The({IF u.exc # NoExc THEN Fail(r2, u.exc)
                   ELSE Return(r2, <<u.pk, target>>) :
                   u \in {Unmask(r2.value[1].session_key,
                                 r2.value[1].resp.privkey)}}) :
         r2 \in {Then(r1, send_auth(r1.self, "unseal", cvc, [slot |-> target], t))}})

\* ts are the answers to dump and to unseal
unseal_slot(s, cvc, ts) ==
    IF s.is_tapsigner THEN Fail(Nothing(s), AssertionError)
    ELSE The({IF Raised(r1) THEN r1
              ELSE The({IF gate # NoExc THEN Fail(r1, gate)
                        ELSE Unsealed(r1, cvc, s.active_slot, ts[2]) :
                        gate \in {SlotGate(r1.value[1], s.active_slot)}}) :
              r1 \in {send(s, "dump", TRUE, [slot |-> s.active_slot], ts[1])}})

\* lines 262-271
KeyOfSlot(r, slot) ==
    LET resp == r.value[1].resp
    IN IF ~Has(resp, "privkey")
       THEN IF Is(resp, "used", FALSE)
            THEN Fail(r, RuntimeError(<<"That slot is not yet used", slot>>))
            ELSE IF Is(resp, "sealed", TRUE)
            THEN Fail(r, RuntimeError(<<"That slot is not yet unsealed", slot>>))
            ELSE Fail(r, RuntimeError(<<"Not sure of the key for that slot", slot>>))
       ELSE The({IF u.exc # NoExc THEN Fail(r, u.exc) ELSE Return(r, u.pk) :
                 u \in {Unmask(r.value[1].session_key, resp.privkey)}})

get_privkey(s, cvc, slot, t) ==
    IF s.is_tapsigner THEN Fail(Nothing(s), AssertionError)
    ELSE The({IF Raised(r) THEN r ELSE KeyOfSlot(r, slot) :
              r \in {send_auth(s, "dump", cvc, [slot |-> slot], t)}})

\* variant: a private key in the response is looked at first
SlotStatus_key_first(here) ==
    IF Is(here, "sealed", FALSE) \/ Has(here, "privkey") THEN "UNSEALED"
    ELSE IF Is(here, "sealed", TRUE) THEN "sealed"
    ELSE IF Is(here, "used", FALSE) THEN "unused"
    ELSE "unclassified"

\* lines 281-294: the branch taken, "unclassified" for the last one
SlotStatus(here) ==
    IF Is(here, "sealed", TRUE) THEN "sealed"
    ELSE IF Is(here, "sealed", FALSE) \/ Has(here, "privkey") THEN "UNSEALED"
    ELSE IF Is(here, "used", FALSE) THEN "unused"
    ELSE "unclassified"

\* line 296: addr or here.get('addr')
OrHint(addr, here) == IF addr = None THEN Get(here, "addr", None) ELSE addr

\* lines 280-298: r1 is the outcome of the authenticated dump
SlotUsage(s, r1, slot, ts, d) ==
    LET here == r1.value[1].resp
        status == SlotStatus(here)
    IN IF status = "sealed" /\ slot = s.active_slot
       THEN The({IF Raised(a) THEN a
                 ELSE Return(a, <<OrHint(a.value[1], here), status, here>>) :
                 a \in {Then(r1, address(r1.self, TRUE, FALSE, None, <<>>,
                                         <<ts[2], ts[3], ts[3]>>, d))}})
       ELSE IF status = "UNSEALED" /\ Has(here, "privkey")
       THEN The({IF u.exc # NoExc THEN Fail(r1, u.exc)
                 ELSE Return(r1, <<render_address(u.pk, s.is_testnet),
                                   status, here>>) :
                 u \in {Unmask(r1.value[1].session_key, here.privkey)}})
       ELSE IF status = "unclassified" THEN Fail(r1, ValueError(here))
       ELSE Return(r1, <<Get(here, "addr", None), status, here>>)

\* ts are the answers to dump and, for address(faster=True), to status and
\* read; d holds the nonces picked
get_slot_usage(s, slot, cvc, ts, d) ==
    IF s.is_tapsigner THEN Fail(Nothing(s), AssertionError)
    ELSE The({IF Raised(r1) THEN r1 ELSE SlotUsage(s, r1, slot, ts, d) :
              r1 \in {send_auth(s, "dump", cvc, [slot |-> slot], ts[1])}})

(***************************************************************************)
(* TAPSIGNER operations, change_cvc and the plain readers                  *)
(***************************************************************************)
\* the hardened bit of a path component: bit 31 in the library, bit 7 here,
\* with indices below 128
Hardened == 128

\* a path is written as components [n, h] and sent as integers
path2str(path) ==
    [i \in DOMAIN path |->
        IF path[i] >= Hardened THEN [n |-> path[i] - Hardened, h |-> TRUE]
        ELSE [n |-> path[i], h |-> FALSE]]
str2path(path) ==
    [i \in DOMAIN path |-> path[i].n + (IF path[i].h THEN Hardened ELSE 0)]
all_hardened(np) == \A i \in DOMAIN np : np[i] >= Hardened

\* xpub[-33:], the fingerprint of it, and the printed form of an xpub
LastBytes(x, n) == SubSeq(x, IF Len(x) > n THEN Len(x) - n + 1 ELSE 1, Len(x))
hash160(x) == [hash160 |-> x]
b58encode_check(x) == [base58check |-> x]
\* a code given as text is encoded; bytes are taken as they are
force_bytes(v) == v.chars

get_derivation(s, t) ==
    IF ~s.is_tapsigner THEN Fail(Nothing(s), AssertionError)
    ELSE The({IF Raised(r) THEN r
              ELSE IF ~Has(r.value[1], "path") THEN Return(r, None)
              ELSE Return(r, path2str(r.value[1].path)) :
              r \in {send(s, "status", TRUE, EmptyMap, t)}})

\* n is the nonce picked
set_derivation(s, path, cvc, t, n) ==
    IF ~s.is_tapsigner THEN Fail(Nothing(s), AssertionError)
    ELSE IF ~all_hardened(str2path(path))
    THEN Fail(Nothing(s), ValueError("All path components must be hardened"))
    ELSE The({IF Raised(r) THEN r
              ELSE IF ~Has(r.value[1].resp, "chain_code")
                      \/ ~Has(r.value[1].resp, "pubkey") THEN Fail(r, KeyError)
              ELSE Return(r, <<Len(str2path(path)), r.value[1].resp.chain_code,
                               r.value[1].resp.pubkey>>) :
              r \in {send_auth(s, "derive", cvc,
                               [path |-> str2path(path), nonce |-> n], t)}})

get_xfp(s, cvc, t) ==
    IF ~s.is_tapsigner THEN Fail(Nothing(s), AssertionError)
    ELSE The({IF Raised(r) THEN r
              ELSE IF ~Has(r.value[1].resp, "xpub") THEN Fail(r, KeyError)
              ELSE Return(r, [first4 |-> hash160(LastBytes(r.value[1].resp.xpub, 33))]) :
              r \in {send_auth(s, "xpub", cvc, [master |-> TRUE], t)}})

get_xpub(s, cvc, master, t) ==
    IF ~s.is_tapsigner THEN Fail(Nothing(s), AssertionError)
    ELSE The({IF Raised(r) THEN r
              ELSE IF ~Has(r.value[1].resp, "xpub") THEN Fail(r, KeyError)
              ELSE Return(r, b58encode_check(r.value[1].resp.xpub)) :
              r \in {send_auth(s, "xpub", cvc, [master |-> master], t)}})

make_backup(s, cvc, t) ==
    IF ~s.is_tapsigner THEN Fail(Nothing(s), AssertionError)
    ELSE The({IF Raised(r) THEN r
              ELSE IF ~Has(r.value[1].resp, "data") THEN Fail(r, KeyError)
              ELSE Return(r, r.value[1].resp.data) :
              r \in {send_auth(s, "backup", cvc, EmptyMap, t)}})

\* variant: the length of the new code is left to the card
CvcLengthOk_any(new_cvc) == TRUE

\* line 207
CvcLengthOk(new_cvc) == 6 <= Len(new_cvc.chars) /\ Len(new_cvc.chars) <= 32

change_cvc(s, old_cvc, new_cvc, t) ==
    IF ~CvcLengthOk(new_cvc) THEN Fail(Nothing(s), AssertionError)
    ELSE The({IF Raised(r) THEN r ELSE Return(r, None) :
              r \in {send_auth(s, "change", old_cvc,
                               [data |-> force_bytes(new_cvc)], t)}})

get_status(s, t) == send(s, "status", TRUE, EmptyMap, t)

get_nfc_url(s, t) ==
    The({IF Raised(r) THEN r ELSE Return(r, Get(r.value[1], "url", None)) :
         r \in {send(s, "nfc", TRUE, EmptyMap, t)}})

(***************************************************************************)
(* What the card may answer, and what callers may pass                     *)
(***************************************************************************)
Opt(k, S) == {EmptyMap} \cup {k :> v : v \in S}

Nonces == {<<>>} \cup {<<i>> : i \in 1..MaxNonce}
PubKeys == {<<2, i>> : i \in 1..MaxKey}
StatWords == {SW_OKAY, 27264}     \* 0x9000 and 0x6a80

\* the part every response may carry; a code comes only with an error
Generic ==
    LET errs == {("error" :> <<"bad auth">>) @@ c : c \in Opt("code", {401})}
    IN {e @@ n : e \in {EmptyMap} \cup errs, n \in Opt("card_nonce", Nonces)}

\* a failing answer carries no body
Answers(bodies) ==
    UNION {{[sw |-> w, resp |-> g @@ b] :
               b \in IF w = SW_OKAY /\ ~Has(g, "error") THEN bodies
                     ELSE {EmptyMap}} :
           w \in StatWords, g \in Generic}

\* what the card answers to an authenticated command
AuthAnswers ==
    {[sw |-> w, resp |-> n] : w \in StatWords, n \in Opt("card_nonce", Nonces)}

\* what a status may report besides proto and pubkey
StatusDetails ==
    {[ver |-> "0.9.0"],
     [ver |-> "1.0.3", slots |-> <<1, 3>>, testnet |-> TRUE,
      birth |-> 700001, auth_delay |-> 3],
     [ver |-> "1.0.3", tapsigner |-> TRUE]}

StatusBodies ==
    {[proto |-> p, pubkey |-> k] @@ d :
        p \in {1, 2}, k \in PubKeys, d \in StatusDetails}

Digest1 == [i \in 1..KeyLen |-> (7 * i) % 256]
Cvc1 == <<49, 50, 51, 52, 53, 54>>
Data1 == <<57, 56, 55, 54, 53, 52, 51, 50>>

\* calls of send and of send_auth: <<command, arguments>>
SendCalls == {<<"status", EmptyMap>>, <<"dump", [slot |-> 1]>>}
AuthCalls ==
    {<<"sign", [slot |-> 0, digest |-> Digest1]>>,
     <<"change", [data |-> Data1]>>,
     <<"unseal", [slot |-> 0]>>,
     <<"xpub", [master |-> TRUE, digest |-> Digest1, data |-> Data1]>>}
Cvcs == {None, Some(<<>>), Some(Cvc1)}

(***************************************************************************)
(* The session as a state machine                                          *)
(***************************************************************************)
OpRec(name, cmd, raise_on_error, cvc, args) ==
    [name |-> name, cmd |-> cmd, raise_on_error |-> raise_on_error,
     cvc |-> cvc, args |-> args]

\* history: a certificate check has succeeded since first_look was last called
Certified(o, rec) ==
    IF rec.name \in {"__init__", "first_look"} THEN FALSE
    ELSE IF \E i \in DOMAIN o.checks :
               o.checks[i].name = "verify_certs" /\ o.checks[i].ok
         THEN TRUE
    ELSE certified

Apply(o, rec) ==
    /\ self' = o.self
    /\ sent' = o.sent
    /\ rcvd' = o.rcvd
    /\ out' = [exc |-> o.exc, value |-> o.value]
    /\ auth' = o.auth
    /\ checks' = o.checks
    /\ certified' = Certified(o, rec)
    /\ op' = rec

Init ==
    /\ self = EmptyMap
    /\ phase = "uninit"
    /\ op = OpRec("none", "", TRUE, None, EmptyMap)
    /\ sent = <<>>
    /\ rcvd = <<>>
    /\ out = [exc |-> NoExc, value |-> None]
    /\ auth = <<>>
    /\ checks = <<>>
    /\ certified = FALSE

\* CKTapCard(transport): lines 23-25; a failed constructor leaves no object
Construct ==
    /\ phase = "uninit"
    /\ \E t \in Answers(StatusBodies) :
          LET o == first_look(Put(self, "tr", TRUE), t)
          IN /\ Apply(o, OpRec("__init__", "", TRUE, None, EmptyMap))
             /\ phase' = IF Raised(o) THEN "failed" ELSE "active"

\* the object exists and its methods can be called
Live == phase \in {"active", "closed"}

FirstLook ==
    /\ Live
    /\ \E t \in Answers(StatusBodies) :
          Apply(first_look(self, t), OpRec("first_look", "", TRUE, None, EmptyMap))
    /\ UNCHANGED phase

Send ==
    /\ Live
    /\ \E c \in SendCalls, raise_on_error \in BOOLEAN,
          t \in Answers({EmptyMap}) :
          Apply(send(self, c[1], raise_on_error, c[2], t),
                OpRec("send", c[1], raise_on_error, None, c[2]))
    /\ UNCHANGED phase

SendAuth ==
    /\ Live
    /\ \E c \in AuthCalls, cvc \in Cvcs, t \in AuthAnswers :
          Apply(send_auth(self, c[1], cvc, c[2], t),
                OpRec("send_auth", c[1], TRUE, cvc, c[2]))
    /\ UNCHANGED phase

\* lines 32-35; the session is closed once close() has returned
Close ==
    /\ Live
    /\ LET o == close(self)
       IN /\ Apply(o, OpRec("close", "", TRUE, None, EmptyMap))
          /\ phase' = IF Raised(o) THEN phase ELSE "closed"

Next == Construct \/ FirstLook \/ Send \/ SendAuth \/ Close

Spec == Init /\ [][Next]_vars

(***************************************************************************)
(* The verifying operations: what the card may answer to them              *)
(***************************************************************************)
\* one answer, accepted or refused
Ok(body) == [sw |-> SW_OKAY, resp |-> body]
Refused == [sw |-> 27264, resp |-> EmptyMap]

\* the nonces pick_nonce hands out to one operation
Draws == {[check |-> <<11>>, read |-> <<12>>, derive |-> <<13>>]}

\* the keys of a card: its payment key, derived from its master key
MasterKey == <<2, 5>>
ChainCodes == {<<4>>, <<7>>}
SlotKey == DeriveKey(MasterKey, <<4>>)
RogueRoot == <<2, 66>>

\* a status of a SATSCARD on slot 0, with or without a key picked
CardStatus(k, n) ==
    {[proto |-> 1, pubkey |-> k, ver |-> "1.0.3", slots |-> <<0, 2>>,
      card_nonce |-> n] @@ a :
        a \in Opt("addr", {"bc1q___hint"})}

\* answers to status, certs and check; nothing is asked after a refusal
CertScripts(d) ==
    LET stats == {Ok(b) : b \in UNION {CardStatus(k, <<1>>) : k \in PubKeys}}
        chains == {Ok([cert_chain |-> <<[subject |-> <<2, 1>>, by |-> r]>>]) :
                      r \in {FactoryRoot, RogueRoot}}
        sigs == {Ok([auth_sig |-> Sig(<<2, 1>>, <<n>>), card_nonce |-> <<2>>]) :
                    n \in {d.check, <<0>>}}
    IN {<<Refused, Refused, Refused>>}
       \cup {<<a, Refused, Refused>> : a \in stats}
       \cup {<<a, b, c>> : a \in stats, b \in chains, c \in sigs \cup {Refused}}

\* the answers of a genuine card with key <<2, 1>>
HonestCert(d) ==
    <<Ok([proto |-> 1, pubkey |-> <<2, 1>>, ver |-> "1.0.3", slots |-> <<0, 2>>,
          card_nonce |-> <<1>>]),
      Ok([cert_chain |-> <<[subject |-> <<2, 1>>, by |-> FactoryRoot]>>]),
      Ok([auth_sig |-> Sig(<<2, 1>>, <<d.check>>), card_nonce |-> <<2>>])>>

\* answers to 'read': the payment key signed over the nonce, or over another
ReadAnswers(d) ==
    {Ok([pubkey |-> SlotKey, sig |-> Sig(SlotKey, <<n>>)] @@ c) :
        n \in {d.read, <<0>>}, c \in Opt("card_nonce", {<<2>>})}

\* answers to an unauthenticated 'dump'
DumpAnswers ==
    {Ok([slot |-> 1, sealed |-> FALSE, addr |-> a]) :
        a \in {render_address(k, FALSE) : k \in {SlotKey, RogueRoot}}}
    \cup {Ok([slot |-> 1, used |-> FALSE])}

\* answers to 'derive': signed over our nonce and a nonce the card had sent
DeriveAnswers(d) ==
    {Ok([master_pubkey |-> MasterKey, chain_code |-> cc,
         sig |-> Sig(MasterKey, <<d.derive, prior, cc>>),
         card_nonce |-> <<1>>]) :
        cc \in ChainCodes, prior \in Nonces \ {<<>>}}

\* answers to status, then read or dump, then derive
AddressScripts(d) ==
    LET stats == {Ok(b) : b \in CardStatus(<<2, 1>>, <<1>>)}
    IN {<<Refused, Refused, Refused>>}
       \cup {<<a, Refused, Refused>> : a \in stats}
       \cup {<<a, b, Refused>> : a \in stats, b \in DumpAnswers \cup ReadAnswers(d)}
       \cup {<<a, b, c>> : a \in stats, b \in ReadAnswers(d), c \in DeriveAnswers(d)}

HonestAddress(d) ==
    <<Ok([proto |-> 1, pubkey |-> <<2, 1>>, ver |-> "1.0.3", slots |-> <<0, 2>>,
          card_nonce |-> <<1>>, addr |-> "bc1q___hint"]),
      Ok([pubkey |-> SlotKey, sig |-> Sig(SlotKey, <<d.read>>), card_nonce |-> <<2>>]),
      Ok([master_pubkey |-> MasterKey, chain_code |-> <<4>>,
          sig |-> Sig(MasterKey, <<d.derive, <<2>>, <<4>>>>),
          card_nonce |-> <<1>>])>>

\* calls of address: <<faster, incl_pubkey, slot>>
AddressCalls ==
    {<<FALSE, FALSE, None>>, <<FALSE, FALSE, Some(1)>>, <<FALSE, TRUE, None>>,
     <<FALSE, TRUE, Some(1)>>, <<TRUE, FALSE, None>>, <<TRUE, TRUE, Some(0)>>}

\* what first_look may be answered on these sessions
LookAnswers ==
    {Ok([proto |-> 1, pubkey |-> k, ver |-> "1.0.3", card_nonce |-> n] @@ v) :
        k \in PubKeys, n \in {<<>>, <<1>>},
        v \in {[slots |-> <<0, 2>>], [tapsigner |-> TRUE]}}
    \cup {Refused}

(***************************************************************************)
(* The verifying operations as a state machine                             *)
(***************************************************************************)
VConstruct ==
    /\ phase = "uninit"
    /\ \E t \in LookAnswers :
          LET o == first_look(Put(self, "tr", TRUE), t)
          IN /\ Apply(o, OpRec("__init__", "", TRUE, None, EmptyMap))
             /\ phase' = IF Raised(o) THEN "failed" ELSE "active"

VFirstLook ==
    /\ Live
    /\ \E t \in LookAnswers :
          Apply(first_look(self, t), OpRec("first_look", "", TRUE, None, EmptyMap))
    /\ UNCHANGED phase

VSend ==
    /\ Live
    /\ \E t \in {Refused, Ok(EmptyMap), Ok([card_nonce |-> <<2>>])} :
          Apply(send(self, "status", TRUE, EmptyMap, t),
                OpRec("send", "status", TRUE, None, EmptyMap))
    /\ UNCHANGED phase

CertificateCheck ==
    /\ Live
    /\ \E d \in Draws : \E cs \in CertScripts(d) :
          Apply(certificate_check(self, cs, d.check),
                OpRec("certificate_check", "", TRUE, None, [draws |-> d]))
    /\ UNCHANGED phase

\* the card's answers vary in the certificate check or in what follows it
AddressOp ==
    /\ Live
    /\ \E d \in Draws, c \in AddressCalls :
       \E x \in ({HonestCert(d)} \X AddressScripts(d))
                \cup (CertScripts(d) \X {HonestAddress(d)}) :
          Apply(address(self, c[1], c[2], c[3], x[1], x[2], d),
                OpRec("address", "", TRUE, None,
                      [faster |-> c[1], incl_pubkey |-> c[2], slot |-> c[3],
                       draws |-> d]))
    /\ UNCHANGED phase

NextVerify == VConstruct \/ VFirstLook \/ VSend \/ CertificateCheck \/ AddressOp \/ Close

SpecVerify == Init /\ [][NextVerify]_vars

(***************************************************************************)
(* The slot and TAPSIGNER operations: what the card may answer to them     *)
(***************************************************************************)
\* a masked private key, an extended public key and a backup
Priv1 == [i \in 1..KeyLen |-> (3 * i) % 256]
Xpub1 == [i \in 1..35 |-> i]
Backup1 == <<200, 201, 202>>
HintAddr == [hint |-> "bc1q___slot"]

\* sessions on a SATSCARD with slot 0 or slot 1 active, or on a TAPSIGNER
SlotLookAnswers ==
    {Ok([proto |-> 1, pubkey |-> <<2, 1>>, ver |-> "1.0.3",
         card_nonce |-> <<1>>] @@ v) :
        v \in {[slots |-> <<0, 2>>], [slots |-> <<1, 2>>], [tapsigner |-> TRUE]}}
    \cup {Refused}

\* what a 'dump' may report of a slot
SlotReports ==
    {[sealed |-> TRUE], [sealed |-> TRUE, addr |-> HintAddr],
     [sealed |-> FALSE, addr |-> HintAddr],
     [sealed |-> FALSE, privkey |-> Priv1],
     [sealed |-> TRUE, privkey |-> Priv1], [privkey |-> Priv1],
     [used |-> FALSE], [used |-> FALSE, sealed |-> TRUE],
     [used |-> TRUE], EmptyMap}
SlotAnswers ==
    {Ok(b) : b \in SlotReports}
    \cup {Ok([sealed |-> FALSE, privkey |-> Priv1, card_nonce |-> <<2>>]), Refused}

\* answers to dump and to unseal; nothing is asked after a refusal
UnsealScripts ==
    LET dumps == {Ok(b) : b \in {[sealed |-> TRUE], [sealed |-> FALSE],
                                 [used |-> FALSE], [sealed |-> TRUE,
                                                    card_nonce |-> <<2>>]}}
        keys == {Ok([privkey |-> Priv1, card_nonce |-> <<2>>]), Ok(EmptyMap)}
    IN {<<Refused, Refused>>}
       \cup {<<a, b>> : a \in dumps, b \in keys \cup {Refused}}

\* answers to dump and then to the status and read of address(faster=True)
UsageScripts(d) ==
    {<<a, HonestAddress(d)[1], HonestAddress(d)[2]>> : a \in SlotAnswers}
    \cup {<<Ok([sealed |-> TRUE]), x[1], x[2]>> : x \in AddressScripts(d)}

SlotCvcs == {None, Some(Cvc1)}

\* a new code of each length around the limits, as bytes
NewCvcs == {[is_str |-> FALSE, chars |-> [i \in 1..n |-> 48 + (i % 10)]] :
               n \in {5, 6, 32, 33}}

\* derivation paths as written by the caller: m/84h/0h and m/84h/0
Paths == {<<[n |-> 84, h |-> TRUE], [n |-> 0, h |-> TRUE]>>,
          <<[n |-> 84, h |-> TRUE], [n |-> 0, h |-> FALSE]>>}

\* answers to a command of a TAPSIGNER: refused, empty, or as it should be
TapAnswers(body) == {Refused, Ok(EmptyMap), Ok(body @@ [card_nonce |-> <<2>>])}

(***************************************************************************)
(* The slot and TAPSIGNER operations as a state machine                    *)
(***************************************************************************)
SConstruct ==
    /\ phase = "uninit"
    /\ \E t \in SlotLookAnswers :
          LET o == first_look(Put(self, "tr", TRUE), t)
          IN /\ Apply(o, OpRec("__init__", "", TRUE, None, EmptyMap))
             /\ phase' = IF Raised(o) THEN "failed" ELSE "active"

SFirstLook ==
    /\ Live
    /\ \E t \in SlotLookAnswers :
          Apply(first_look(self, t), OpRec("first_look", "", TRUE, None, EmptyMap))
    /\ UNCHANGED phase

\* the record notes whether this call follows an unseal_slot that returned
UnsealSlot ==
    /\ Live
    /\ \E cvc \in SlotCvcs, ts \in UnsealScripts :
          Apply(unseal_slot(self, cvc, ts),
                OpRec("unseal_slot", "", TRUE, cvc,
                      [again |-> op.name = "unseal_slot" /\ out.exc = NoExc]))
    /\ UNCHANGED phase

GetPrivkey ==
    /\ Live
    /\ \E cvc \in SlotCvcs, slot \in {0, 1}, t \in SlotAnswers :
          Apply(get_privkey(self, cvc, slot, t),
                OpRec("get_privkey", "", TRUE, cvc, [slot |-> slot]))
    /\ UNCHANGED phase

GetSlotUsage ==
    /\ Live
    /\ \E cvc \in SlotCvcs, slot \in {0, 1}, d \in Draws :
       \E ts \in UsageScripts(d) :
          Apply(get_slot_usage(self, slot, cvc, ts, d),
                OpRec("get_slot_usage", "", TRUE, cvc, [slot |-> slot]))
    /\ UNCHANGED phase

SlotAddress ==
    /\ Live
    /\ \E d \in Draws, c \in AddressCalls :
          Apply(address(self, c[1], c[2], c[3], HonestCert(d), HonestAddress(d), d),
                OpRec("address", "", TRUE, None,
                      [faster |-> c[1], incl_pubkey |-> c[2], slot |-> c[3],
                       draws |-> d]))
    /\ UNCHANGED phase

GetDerivation ==
    /\ Live
    /\ \E t \in TapAnswers([path |-> <<Hardened + 84, 0>>]) :
          Apply(get_derivation(self, t),
                OpRec("get_derivation", "", TRUE, None, EmptyMap))
    /\ UNCHANGED phase

SetDerivation ==
    /\ Live
    /\ \E path \in Paths, cvc \in SlotCvcs, d \in Draws,
          t \in TapAnswers([chain_code |-> <<4>>, pubkey |-> SlotKey]) :
          Apply(set_derivation(self, path, cvc, t, d.derive),
                OpRec("set_derivation", "", TRUE, cvc, [path |-> path]))
    /\ UNCHANGED phase

GetXfp ==
    /\ Live
    /\ \E cvc \in SlotCvcs, t \in TapAnswers([xpub |-> Xpub1]) :
          Apply(get_xfp(self, cvc, t), OpRec("get_xfp", "", TRUE, cvc, EmptyMap))
    /\ UNCHANGED phase

GetXpub ==
    /\ Live
    /\ \E cvc \in SlotCvcs, master \in BOOLEAN, t \in TapAnswers([xpub |-> Xpub1]) :
          Apply(get_xpub(self, cvc, master, t),
                OpRec("get_xpub", "", TRUE, cvc, [master |-> master]))
    /\ UNCHANGED phase

MakeBackup ==
    /\ Live
    /\ \E cvc \in SlotCvcs, t \in TapAnswers([data |-> Backup1]) :
          Apply(make_backup(self, cvc, t),
                OpRec("make_backup", "", TRUE, cvc, EmptyMap))
    /\ UNCHANGED phase

ChangeCvc ==
    /\ Live
    /\ \E old_cvc \in SlotCvcs, new_cvc \in NewCvcs,
          t \in {Refused, Ok(EmptyMap), Ok([card_nonce |-> <<2>>])} :
          Apply(change_cvc(self, old_cvc, new_cvc, t),
                OpRec("change_cvc", "", TRUE, old_cvc, [new_cvc |-> new_cvc]))
    /\ UNCHANGED phase

GetStatus ==
    /\ Live
    /\ \E t \in {Refused, Ok([proto |-> 1, card_nonce |-> <<2>>])} :
          Apply(get_status(self, t), OpRec("get_status", "", TRUE, None, EmptyMap))
    /\ UNCHANGED phase

GetNfcUrl ==
    /\ Live
    /\ \E t \in TapAnswers([url |-> "https://tap.example/x"]) :
          Apply(get_nfc_url(self, t), OpRec("get_nfc_url", "", TRUE, None, EmptyMap))
    /\ UNCHANGED phase

NextSlots ==
    \/ SConstruct \/ SFirstLook \/ UnsealSlot \/ GetPrivkey \/ GetSlotUsage
    \/ SlotAddress \/ GetDerivation \/ SetDerivation \/ GetXfp \/ GetXpub
    \/ MakeBackup \/ ChangeCvc \/ GetStatus \/ GetNfcUrl

SpecSlots == Init /\ [][NextSlots]_vars

(***************************************************************************)
(* Properties of send                                                      *)
(***************************************************************************)
\* the last exchange with the transport made by the last operation
LastSent == sent[Len(sent)]
LastRcvd == rcvd[Len(rcvd)]

\* C1: whenever the response to a command carries card_nonce, the session's
\* tracked nonce is exactly that value once the call has finished, whether
\* it returned or raised, whatever the status word and the error fields.
C1_NonceTracksResponse ==
    (rcvd # <<>> /\ Has(LastRcvd.raw, "card_nonce"))
        => (Has(self, "card_nonce")
            /\ self.card_nonce = LastRcvd.raw.card_nonce)

\* a send that raised on an error response with a bad status word, and one
\* that returned it, both leaving the response's nonce in the session
C1_Witness ==
    /\ op.name = "send"
    /\ rcvd # <<>>
    /\ LastRcvd.sw # SW_OKAY
    /\ Has(LastRcvd.raw, "error")
    /\ Has(LastRcvd.raw, "card_nonce")
    /\ LastRcvd.raw.card_nonce = <<2>>
    /\ self.card_nonce = <<2>>
    /\ out.exc.type = "CardRuntimeError"

\* C2: a response whose status word is not the success value is a failure
\* even without an error key: the error text is synthesised from the status
\* word when absent (the card's own text is kept otherwise), the status word
\* is recorded under stat_word, and with raise_on_error the call raises the
\* structured error; without it the annotated map is returned.
C2_BadStatusWordFails ==
    (rcvd # <<>> /\ LastRcvd.sw # SW_OKAY) =>
        LET msg == IF Has(LastRcvd.raw, "error") THEN LastRcvd.raw.error
                   ELSE <<"Got error SW value: 0x">> \o Hex4(LastRcvd.sw)
        IN /\ Has(LastRcvd.resp, "stat_word")
           /\ LastRcvd.resp.stat_word = LastRcvd.sw
           /\ op.raise_on_error =>
                 /\ out.exc.type = "CardRuntimeError"
                 /\ out.exc.msg = msg
                 /\ out.value = None
           /\ ~op.raise_on_error =>
                 /\ out.exc = NoExc
                 /\ out.value # None
                 /\ out.value[1].error = msg
                 /\ out.value[1].stat_word = LastRcvd.sw

\* a bad status word without an error key, raised with the synthesised text
C2_Witness ==
    /\ op.name = "send"
    /\ op.raise_on_error
    /\ rcvd # <<>>
    /\ LastRcvd.sw = 27264
    /\ ~Has(LastRcvd.raw, "error")
    /\ out.exc.type = "CardRuntimeError"
    /\ out.exc.msg = <<"Got error SW value: 0x", "6", "a", "8", "0">>
    /\ out.exc.code = 500
    /\ LastRcvd.resp.stat_word = 27264

\* C3: a response with an error key makes a default send raise one
\* structured error carrying the command, the response's code (500 without
\* one) and the message, and never return; with raise_on_error=False the
\* call does not raise and returns the map with its error field.
C3_ErrorRaisesOrReturns ==
    (rcvd # <<>> /\ Has(LastRcvd.raw, "error")) =>
        LET raw == LastRcvd.raw
            code == IF Has(raw, "code") THEN raw.code ELSE 500
        IN /\ op.raise_on_error =>
                 /\ out.value = None
                 /\ out.exc.type = "CardRuntimeError"
                 /\ out.exc.code = code
                 /\ out.exc.msg = raw.error
                 /\ out.exc.text = <<code, "on", LastSent.cmd, raw.error>>
           /\ ~op.raise_on_error =>
                 /\ out.exc = NoExc
                 /\ out.value # None
                 /\ Has(out.value[1], "error")
                 /\ out.value[1].error = raw.error

\* an error without a code raised as code 500, on a success status word
C3_Witness ==
    /\ op.name = "send"
    /\ op.raise_on_error
    /\ rcvd # <<>>
    /\ LastRcvd.sw = SW_OKAY
    /\ Has(LastRcvd.raw, "error")
    /\ ~Has(LastRcvd.raw, "code")
    /\ out.exc.type = "CardRuntimeError"
    /\ out.exc.code = 500
    /\ out.exc.text = <<500, "on", "dump", <<"bad auth">> >>

(***************************************************************************)
(* Properties of first_look and of the session's life cycle                *)
(***************************************************************************)
LoadedKeys == {"card_pubkey", "card_ident"} \cup DetailKeys
IdentityKeys == {"card_pubkey", "card_ident", "applet_version",
                 "is_testnet", "is_tapsigner"}
Restrict(s, keys) == [k \in DOMAIN s \cap keys |-> s[k]]
StatusOnly == <<[cmd |-> "status", args |-> EmptyMap]>>

\* the card answered the status request without any error
Heard(r) == r.sw = SW_OKAY /\ ~Has(r.raw, "error")

\* C4: a first_look on a session with its transport sends exactly one
\* status command, without arguments and without deriving a session key; a
\* reported protocol version other than 1 makes it fail with every loaded
\* field as before, and version 1 sets the public key to the reported key,
\* the identity to the hash of that key, and the active slot and slot count
\* to the reported pair, or to 0 and 1 when the status has no slots.
C4_FirstLookLoads ==
    [][ (op'.name \in {"__init__", "first_look"} /\ rcvd' # <<>>) =>
          /\ sent' = StatusOnly
          /\ Len(rcvd') = 1
          /\ auth' = <<>>
          /\ LET st == rcvd'[1].raw
             IN (Heard(rcvd'[1])) =>
                  IF st.proto # 1
                  THEN /\ out'.exc = AssertionError
                       /\ Restrict(self', LoadedKeys) = Restrict(self, LoadedKeys)
                  ELSE /\ self'.card_pubkey = st.pubkey
                       /\ self'.card_ident = [sha256 |-> st.pubkey]
                       /\ <<self'.active_slot, self'.num_slots>> =
                             (IF Has(st, "slots") THEN st.slots ELSE <<0, 1>>)
      ]_vars

\* a re-run that succeeded on a status without slots
C4_Witness ==
    /\ op.name = "first_look"
    /\ out.exc = NoExc
    /\ rcvd # <<>>
    /\ ~Has(rcvd[1].raw, "slots")
    /\ rcvd[1].raw.pubkey = <<2, 2>>
    /\ self.card_ident = [sha256 |-> <<2, 2>>]
    /\ self.active_slot = 0
    /\ self.num_slots = 1

\* C5 (as claimed): once the session is initialised the identity fields keep
\* the values of the first first_look, whatever operation follows.
C5_IdentityFrozen ==
    [][ Live => Restrict(self', IdentityKeys) = Restrict(self, IdentityKeys) ]_vars

\* C5 (amended): once the session is initialised the identity fields change
\* only in a first_look whose status passed the version check, which sets
\* them to the values of that status; send, send_auth and close, and a
\* first_look that failed earlier, leave them as they were.
C5_IdentityFollowsFirstLook ==
    [][ Live =>
          \/ Restrict(self', IdentityKeys) = Restrict(self, IdentityKeys)
          \/ /\ op'.name = "first_look"
             /\ rcvd' # <<>>
             /\ Heard(rcvd'[1])
             /\ rcvd'[1].raw.proto = 1
             /\ LET st == rcvd'[1].raw
                IN Restrict(self', IdentityKeys) =
                     [card_pubkey |-> st.pubkey,
                      card_ident |-> [sha256 |-> st.pubkey],
                      applet_version |-> st.ver,
                      is_testnet |-> Has(st, "testnet") /\ st.testnet,
                      is_tapsigner |-> Has(st, "tapsigner") /\ st.tapsigner]
      ]_vars

\* a re-run of first_look has loaded a testnet status of the second key
C5_Witness ==
    /\ op.name = "first_look"
    /\ phase = "active"
    /\ out.exc = NoExc
    /\ rcvd[1].raw.pubkey = <<2, 2>>
    /\ Has(rcvd[1].raw, "testnet")
    /\ self.card_pubkey = <<2, 2>>
    /\ self.is_testnet
    /\ self.applet_version = "1.0.3"

\* C6 (as claimed): the tracked nonce is non-empty in every state of an
\* initialised session.
C6_NonceNeverEmpty ==
    Live => (Has(self, "card_nonce") /\ self.card_nonce # <<>>)

\* C6 (amended): construction succeeds only with a non-empty nonce, and the
\* tracked nonce of an initialised session is always present and becomes
\* empty only through a response that carries an empty card_nonce, which
\* send stores as it is; a response without card_nonce leaves it as it was.
C6_NonceEmptyOnlyFromCard ==
    [][ /\ (phase = "uninit" /\ phase' = "active") =>
              (Has(self', "card_nonce") /\ self'.card_nonce # <<>>)
        /\ Live =>
              /\ Has(self', "card_nonce")
              /\ (self'.card_nonce = <<>> /\ self.card_nonce # <<>>) =>
                    /\ rcvd' # <<>>
                    /\ Has(rcvd'[Len(rcvd')].raw, "card_nonce")
                    /\ rcvd'[Len(rcvd')].raw.card_nonce = <<>>
      ]_vars

\* a first_look re-run on a status with an empty nonce: it failed, and the
\* session is left with the empty nonce
C6_Witness ==
    /\ phase = "active"
    /\ op.name = "first_look"
    /\ out.exc = AssertionError
    /\ rcvd[1].raw.proto = 1
    /\ rcvd[1].raw.card_nonce = <<>>
    /\ self.card_nonce = <<>>

\* C7: before the constructor's first_look nothing has been sent and the
\* constructor sends the one status command only; once close() has returned
\* every operation fails, sends nothing to the transport and leaves the
\* nonce and every other field of the session as it was.
C7_Lifecycle ==
    [][ /\ phase = "uninit" =>
              /\ sent = <<>>
              /\ auth' = <<>>
              /\ sent' \in {<<>>, StatusOnly}
        /\ phase = "closed" =>
              /\ phase' = "closed"
              /\ sent' = <<>>
              /\ rcvd' = <<>>
              /\ self' = self
              /\ out'.exc # NoExc
      ]_vars

\* an authenticated send after close: a key was derived, nothing was sent
C7_Witness ==
    /\ phase = "closed"
    /\ op.name = "send_auth"
    /\ op.cmd = "unseal"
    /\ auth # <<>>
    /\ sent = <<>>
    /\ out.exc = AttributeError

(***************************************************************************)
(* Properties of send_auth                                                 *)
(***************************************************************************)
AuthKeys == {"epubkey", "xcvc"}

\* C8: send_auth without a secret code, on a session with its transport,
\* derives no session key and sends the command once with exactly the
\* caller's arguments, for every command; it returns an absent session key
\* with the result, or raises the error the response reports.
C8_NoCodeSendsPlain ==
    (phase = "active" /\ op.name = "send_auth" /\ ~Truthy(op.cvc)) =>
        /\ auth = <<>>
        /\ sent = <<[cmd |-> op.cmd, args |-> op.args]>>
        /\ out.exc.type \in {"none", "CardRuntimeError"}
        /\ out.exc = NoExc =>
              out.value = Some([session_key |-> None, resp |-> LastRcvd.resp])

\* C9: with a secret code, what send_auth hands to the transport is the
\* caller's arguments plus the authenticator's two fields, where 'sign' has
\* its digest XORed with the session key of this call and 'change' has its
\* data XORed with the first len(data) bytes of that key; every other
\* argument of every command goes out as the caller gave it.
C9_MaskedArguments ==
    (op.name = "send_auth" /\ Truthy(op.cvc) /\ sent # <<>>) =>
        LET a == sent[1].args
            key == auth[1].session_key
        IN /\ Len(sent) = 1
           /\ sent[1].cmd = op.cmd
           /\ DOMAIN a = DOMAIN op.args \cup AuthKeys
           /\ \A k \in DOMAIN op.args :
                 IF op.cmd = "sign" /\ k = "digest"
                 THEN /\ Len(a[k]) = Len(op.args[k])
                      /\ \A i \in 1..Len(a[k]) :
                            a[k][i] = BitXor(op.args[k][i], key[i])
                 ELSE IF op.cmd = "change" /\ k = "data"
                 THEN /\ Len(a[k]) = Len(op.args[k])
                      /\ \A i \in 1..Len(a[k]) :
                            a[k][i] = BitXor(op.args[k][i], key[i])
                 ELSE a[k] = op.args[k]

\* a 'change' whose eight data bytes went out masked by the key's first eight
C9_Witness ==
    /\ op.name = "send_auth"
    /\ op.cmd = "change"
    /\ op.cvc = Some(Cvc1)
    /\ sent # <<>>
    /\ auth[1].card_nonce = <<1>>
    /\ auth[1].card_pubkey = <<2, 1>>
    /\ auth[1].session_key[1] = 30
    /\ op.args.data[1] = 57
    /\ sent[1].args.data[1] = 39
    /\ Len(sent[1].args.data) = 8
    /\ sent[1].args.data # op.args.data

\* C10: the fields send_auth adds to the caller's arguments are the two of
\* the authenticator's bundle, neither of them the secret code, and two
\* consecutive send_auth calls with the same command and code whose tracked
\* nonces differ derive different session keys.
C10_SecretStaysHome ==
    [][ (op'.name = "send_auth" /\ auth' # <<>>) =>
          /\ sent' # <<>> =>
                LET a == sent'[1].args
                IN /\ DOMAIN a \ DOMAIN op'.args = AuthKeys
                   /\ a.epubkey = auth'[1].auth_args.epubkey
                   /\ a.xcvc = auth'[1].auth_args.xcvc
                   /\ a.epubkey # op'.cvc[1]
                   /\ a.xcvc # op'.cvc[1]
          /\ (/\ op.name = "send_auth"
              /\ auth # <<>>
              /\ auth[1].cmd = auth'[1].cmd
              /\ auth[1].cvc = auth'[1].cvc
              /\ auth[1].card_nonce # auth'[1].card_nonce)
                => auth[1].session_key # auth'[1].session_key
      ]_vars

\* an authenticated call bound to nonce 2 whose response moved the nonce on,
\* so that the next call binds to another nonce
C10_Witness ==
    /\ phase = "active"
    /\ op.name = "send_auth"
    /\ op.cvc = Some(Cvc1)
    /\ auth # <<>>
    /\ auth[1].card_nonce = <<2>>
    /\ sent # <<>>
    /\ sent[1].args.xcvc # Cvc1
    /\ self.card_nonce = <<1>>

(***************************************************************************)
(* Properties of the nonce across calls                                    *)
(***************************************************************************)
\* two authenticated send_auth calls, one right after the other
TwoAuthCalls ==
    /\ op.name = "send_auth"
    /\ op'.name = "send_auth"
    /\ auth # <<>>
    /\ auth' # <<>>

\* C11 (as claimed): no nonce is handed to the authenticator by two
\* authenticated commands, so consecutive authenticated calls are bound to
\* different nonces and derive different keys.
C11_NonceNeverReused ==
    [][ TwoAuthCalls =>
          /\ auth[1].card_nonce # auth'[1].card_nonce
          /\ auth[1].session_key # auth'[1].session_key ]_vars

\* C11 (amended): an authenticated send_auth is bound to the nonce tracked
\* when it is called, and it is bound to the same nonce as the authenticated
\* call before it exactly when that call sent nothing or its response
\* carried no card_nonce or the same one again; a response that carries
\* another card_nonce makes the next call use that one.
C11_NonceBoundAndReplacedByCard ==
    [][ (op'.name = "send_auth" /\ auth' # <<>>) =>
          /\ auth'[1].card_nonce = self.card_nonce
          /\ auth'[1].session_key =
                SessionKey(op'.cmd, self.card_nonce, self.card_pubkey, op'.cvc[1])
          /\ (op.name = "send_auth" /\ auth # <<>>) =>
                (auth'[1].card_nonce = auth[1].card_nonce
                   <=> \/ rcvd = <<>>
                       \/ ~Has(LastRcvd.raw, "card_nonce")
                       \/ LastRcvd.raw.card_nonce = auth[1].card_nonce)
      ]_vars

\* an authenticated command answered with a bad status word and no nonce:
\* the session still tracks the nonce that the call was bound to
C11_Witness ==
    /\ phase = "active"
    /\ op.name = "send_auth"
    /\ auth # <<>>
    /\ rcvd # <<>>
    /\ LastRcvd.sw # SW_OKAY
    /\ ~Has(LastRcvd.raw, "card_nonce")
    /\ auth[1].card_nonce = <<2>>
    /\ self.card_nonce = <<2>>

\* C18: a send answered without card_nonce leaves the tracked nonce as it
\* was, whether the response reports success or an error; the only failure
\* of a send on a session with its transport is the structured error for an
\* error the response reports; and send changes no field but the nonce.
C18_SendFrame ==
    [][ (op'.name = "send" /\ rcvd' # <<>>) =>
          LET r == rcvd'[1]
              failed == r.sw # SW_OKAY \/ Has(r.raw, "error")
          IN /\ Len(rcvd') = 1
             /\ Pop(self', "card_nonce") = Pop(self, "card_nonce")
             /\ ~Has(r.raw, "card_nonce") =>
                   (Has(self', "card_nonce") /\ self'.card_nonce = self.card_nonce)
             /\ out'.exc.type =
                   (IF failed /\ op'.raise_on_error THEN "CardRuntimeError"
                    ELSE "none")
      ]_vars

\* an error response without a nonce, raised, with the nonce still in place
C18_Witness ==
    /\ op.name = "send"
    /\ rcvd # <<>>
    /\ Has(LastRcvd.raw, "error")
    /\ ~Has(LastRcvd.raw, "card_nonce")
    /\ out.exc.type = "CardRuntimeError"
    /\ self.card_nonce = <<2>>
    /\ self.card_pubkey = <<2, 1>>

(***************************************************************************)
(* Properties of certificate_check and address                             *)
(***************************************************************************)
\* the session's certificate flag is set
Flag(s) == Has(s, "_certs_checked") /\ s._certs_checked

\* the commands of a sequence of sent commands, in order
Cmds(snt) == [i \in DOMAIN snt |-> snt[i].cmd]

\* the verifications of one kind among the logged ones
Checked(chk, name) == {chk[i] : i \in {j \in DOMAIN chk : chk[j].name = name}}
Passed(chk, name) == \E c \in Checked(chk, name) : c.ok

\* C12 (as claimed): once set, the certificate flag stays set under every
\* later operation, a re-run of first_look included.
C12_FlagSticky ==
    [][Flag(self) => Flag(self')]_vars

\* C12 (amended): the certificate flag stays set under every operation
\* except a first_look that returns, which clears it; while it is set an
\* address call sends no 'certs' and no 'check' command; a certificate_check
\* that raises leaves the flag as it was, and the flag is only ever set by
\* an operation whose certificate verification passed.
C12_StickyUntilFirstLook ==
    [][/\ (Flag(self) /\ ~(op'.name = "first_look" /\ out'.exc = NoExc))
              => Flag(self')
       /\ (op'.name = "first_look" /\ out'.exc = NoExc) => ~Flag(self')
       /\ (Flag(self) /\ op'.name = "address")
              => \A i \in DOMAIN sent' : sent'[i].cmd \notin {"certs", "check"}
       /\ (op'.name = "certificate_check" /\ out'.exc # NoExc)
              => Flag(self') = Flag(self)
       /\ (~Flag(self) /\ Flag(self')) => Passed(checks', "verify_certs")
      ]_vars

\* a full address fetch on a session already checked: three commands, none
\* of them of the certificate check
C12_Witness ==
    /\ op.name = "address"
    /\ ~op.args.faster
    /\ out.exc = NoExc
    /\ Flag(self)
    /\ Checked(checks, "verify_certs") = {}
    /\ Cmds(sent) = <<"status", "read", "derive">>

\* the address an address call returned
ReturnedAddr == IF op.args.incl_pubkey THEN out.value[1][2] ELSE out.value[1]
GaveAddress ==
    /\ op.name = "address"
    /\ out.exc = NoExc
    /\ out.value # Some(None)

\* the address was recovered from 'read' and derived again from 'derive'
Compared ==
    /\ \E c \in Checked(checks, "recover_address") : c.ok /\ c.addr = ReturnedAddr
    /\ \E c \in Checked(checks, "verify_derive_address") : c.addr = ReturnedAddr

OnCurrentSlot == \A i \in DOMAIN sent : sent[i].cmd # "dump"

RECURSIVE NonceAfter(_, _)
NonceAfter(start, answers) ==
    IF answers = <<>> THEN start
    ELSE LET last == answers[Len(answers)]
         IN IF Has(last.raw, "card_nonce") THEN last.raw.card_nonce
            ELSE NonceAfter(start, SubSeq(answers, 1, Len(answers) - 1))

\* C19: when address verifies the master key of a 'derive' response, the
\* card nonce it verifies against is the nonce the session tracked just
\* before that 'derive' was sent, and the caller nonce is the one sent in
\* that 'derive' command; the nonce of the 'derive' response is not used.
C19_PriorNonceVerified ==
    [][(op'.name = "address")
          => \A c \in Checked(checks', "verify_master_pubkey") :
                /\ Cmds(sent')[Len(sent')] = "derive"
                /\ c.my_nonce = sent'[Len(sent')].args.nonce
                /\ c.card_nonce
                     = NonceAfter(self.card_nonce,
                                  SubSeq(rcvd', 1, Len(rcvd') - 1))
      ]_vars

\* the master key verified against the nonce left by 'read' while the
\* 'derive' response brought another one
C19_Witness ==
    /\ GaveAddress
    /\ \E c \in Checked(checks, "verify_master_pubkey") :
          /\ c.ok
          /\ c.card_nonce = <<2>>
          /\ rcvd[Len(rcvd) - 1].raw.card_nonce = <<2>>
          /\ LastRcvd.raw.card_nonce = <<1>>
    /\ self.card_nonce = <<1>>

\* C20: an address returned by a call without the faster mode comes after
\* a certificate check that succeeded since first_look was last called.
C20_CheckedSinceFirstLook ==
    (GaveAddress /\ ~op.args.faster) => certified

(***************************************************************************)
(* Properties of the slot operations and of the preconditions              *)
(***************************************************************************)
AlreadyUnsealed(slot) == RuntimeError(<<"Slot", slot, "has already been unsealed.">>)
NotUsedYet(slot) == RuntimeError(<<"Slot", slot, "has not been used yet.">>)

\* the operation stopped after its first command, with no session key derived
StoppedAtDump(exc) ==
    /\ out.exc = exc
    /\ out.value = None
    /\ Len(sent) = 1
    /\ auth = <<>>

\* C14: on a SATSCARD session with its transport, unseal_slot first sends
\* 'dump' with only the session's active slot as argument; when the answer
\* reports sealed=false it fails as already unsealed, and when it reports
\* anything but sealed=true it fails as not used yet, a different error; in
\* both cases no 'unseal' is sent and no session key is derived, so that
\* 'unseal' is only ever sent second, after a 'dump' that reported
\* sealed=true.
C14_UnsealGuarded ==
    (op.name = "unseal_slot" /\ ~self.is_tapsigner)
       => /\ sent # <<>>
          /\ sent[1] = [cmd |-> "dump", args |-> [slot |-> self.active_slot]]
          /\ Heard(rcvd[1])
                => /\ Is(rcvd[1].resp, "sealed", FALSE)
                        => StoppedAtDump(AlreadyUnsealed(self.active_slot))
                   /\ (~Is(rcvd[1].resp, "sealed", FALSE)
                       /\ ~Is(rcvd[1].resp, "sealed", TRUE))
                        => StoppedAtDump(NotUsedYet(self.active_slot))
          /\ AlreadyUnsealed(self.active_slot) # NotUsedYet(self.active_slot)
          /\ \A i \in DOMAIN sent :
                sent[i].cmd = "unseal"
                   => (i = 2 /\ Heard(rcvd[1]) /\ Is(rcvd[1].resp, "sealed", TRUE))

\* unseal_slot called with a code on a slot the card reports as unused
C14_Witness ==
    /\ op.name = "unseal_slot"
    /\ Truthy(op.cvc)
    /\ Heard(rcvd[1])
    /\ Is(rcvd[1].resp, "used", FALSE)
    /\ StoppedAtDump(NotUsedYet(1))

\* C15: an unseal_slot that returns gives the private key of the 'unseal'
\* response XORed with the session key derived for that 'unseal' command,
\* together with the session's active slot, which it leaves as first_look
\* recorded it; and when the next operation is again unseal_slot and the
\* card now reports the slot as unsealed, that call fails as already
\* unsealed and sends only its 'dump'.
C15_UnsealOnce ==
    [][/\ (op'.name = "unseal_slot" /\ out'.exc = NoExc)
             => /\ Len(auth') = 1
                /\ auth'[1].cmd = "unseal"
                /\ Cmds(sent') = <<"dump", "unseal">>
                /\ out'.value
                     = Some(<<xor_bytes(auth'[1].session_key,
                                        rcvd'[2].resp.privkey),
                              self.active_slot>>)
                /\ self'.active_slot = self.active_slot
       /\ (op.name = "unseal_slot" /\ out.exc = NoExc
           /\ op'.name = "unseal_slot"
           /\ rcvd' # <<>> /\ Heard(rcvd'[1])
           /\ Is(rcvd'[1].resp, "sealed", FALSE))
             => /\ out'.exc = AlreadyUnsealed(self.active_slot)
                /\ out'.value = None
                /\ Cmds(sent') = <<"dump">>
                /\ auth' = <<>>
      ]_vars

\* the second of two unseal_slot calls, turned away after its 'dump'
C15_Witness ==
    /\ op.name = "unseal_slot"
    /\ op.args.again
    /\ Truthy(op.cvc)
    /\ StoppedAtDump(AlreadyUnsealed(self.active_slot))

\* the status the classification rules give a 'dump' response, "none" when
\* no rule applies
RuleStatus(here) ==
    IF Has(here, "sealed") /\ here.sealed = TRUE THEN "sealed"
    ELSE IF (Has(here, "sealed") /\ here.sealed = FALSE) \/ Has(here, "privkey")
         THEN "UNSEALED"
    ELSE IF Has(here, "used") /\ here.used = FALSE THEN "unused"
    ELSE "none"

\* C16: when the 'dump' of get_slot_usage is answered without error, a call
\* that returns gives the status of the first rule that applies, in the
\* order sealed=true, then sealed=false or a private key present, then
\* used=false, together with the response itself; a response to which no
\* rule applies makes the call raise ValueError with nothing further sent;
\* a classified response fails only in fetching the address of the sealed
\* active slot or in unmasking a private key without a session key.
C16_ClassifiedInOrder ==
    (op.name = "get_slot_usage" /\ rcvd # <<>> /\ Heard(rcvd[1]))
       => LET here == rcvd[1].resp
              rule == RuleStatus(here)
          IN /\ out.exc = NoExc
                   => /\ rule # "none"
                      /\ out.value[1][2] = rule
                      /\ out.value[1][3] = here
             /\ rule = "none" => (out.exc = ValueError(here) /\ Len(sent) = 1)
             /\ (out.exc # NoExc /\ rule # "none")
                   => \/ /\ rule = "sealed"
                         /\ op.args.slot = self.active_slot
                         /\ Len(sent) > 1
                      \/ /\ rule = "UNSEALED"
                         /\ Has(here, "privkey")
                         /\ ~Truthy(op.cvc)
                         /\ out.exc = TypeError

\* a response that is both sealed and carries a private key counts as sealed
C16_Witness ==
    /\ op.name = "get_slot_usage"
    /\ out.exc = NoExc
    /\ Has(rcvd[1].resp, "privkey")
    /\ Is(rcvd[1].resp, "sealed", TRUE)
    /\ out.value[1][2] = "sealed"
    /\ Len(sent) = 1

SatscardOnly == {"address", "unseal_slot", "get_privkey", "get_slot_usage"}
TapsignerOnly ==
    {"get_derivation", "set_derivation", "get_xfp", "get_xpub", "make_backup"}

\* the call rec on the session s violates its precondition
Violates(s, rec) ==
    \/ rec.name \in SatscardOnly /\ s.is_tapsigner
    \/ rec.name \in TapsignerOnly /\ ~s.is_tapsigner
    \/ rec.name = "change_cvc" /\ Len(rec.args.new_cvc.chars) \notin 6..32

\* C17: address, unseal_slot, get_privkey and get_slot_usage on a TAPSIGNER
\* session, get_derivation, set_derivation, get_xfp, get_xpub and
\* make_backup on any other session, and change_cvc with a new code shorter
\* than 6 or longer than 32 bytes, raise AssertionError with no command
\* sent, no session key derived and every field of the session as before.
C17_PreconditionFirst ==
    [][Violates(self, op')
          => /\ out'.exc = AssertionError
             /\ out'.value = None
             /\ sent' = <<>>
             /\ rcvd' = <<>>
             /\ auth' = <<>>
             /\ self' = self
      ]_vars

\* change_cvc given the right old code and a new code of 33 bytes
C17_Witness ==
    /\ op.name = "change_cvc"
    /\ Truthy(op.cvc)
    /\ Len(op.args.new_cvc.chars) = 33
    /\ out.exc = AssertionError
    /\ sent = <<>>
    /\ self.card_nonce = <<2>>

====
